---- MODULE Spec2Model ----
(***************************************************************************)
(* GatewayOps Python SDK (sdks/python/gatewayops): the request dispatcher  *)
(* (_request / _handle_response), the error classifier (_raise_for_error), *)
(* the trace context manager (trace) and the MCP sub-client hierarchy.     *)
(*                                                                         *)
(* Conventions                                                             *)
(*   - A JSON object key that is missing is Absent; a JSON null and a      *)
(*     Python None are both None.                                          *)
(*   - An Optional[int] is a sequence: <<>> is None, <<n>> is the int n.   *)
(*   - A string that int() is applied to is a sequence of characters.      *)
(***************************************************************************)
EXTENDS Integers, Sequences, FiniteSets, TLC

Absent == "<absent>"
None   == "None"

NoInt     == <<>>
SomeInt(n) == <<n>>

----------------------------------------------------------------------------
(* int(x) of client.py:191.  A str is parsed as an optional sign followed  *)
(* by decimal digits; anything else raises ValueError.  An int is itself;  *)
(* None raises TypeError.                                                  *)

Digits == <<"0", "1", "2", "3", "4", "5", "6", "7", "8", "9">>

IsDigit(ch) == \E i \in 1..Len(Digits) : Digits[i] = ch

DigitVal(ch) == (CHOOSE i \in 1..Len(Digits) : Digits[i] = ch) - 1

RECURSIVE DigitsValue(_, _)
DigitsValue(chars, acc) ==
  IF chars = <<>> THEN acc
  ELSE DigitsValue(Tail(chars), acc * 10 + DigitVal(Head(chars)))

AllDigits(chars) ==
  /\ Len(chars) > 0
  /\ \A i \in 1..Len(chars) : IsDigit(chars[i])

\* int(str): [ok, val]; ok = FALSE stands for ValueError
ParseInt(chars) ==
  IF chars # <<>> /\ Head(chars) \in {"-", "+"}
  THEN IF AllDigits(Tail(chars))
       THEN [ok |-> TRUE,
             val |-> IF Head(chars) = "-" THEN 0 - DigitsValue(Tail(chars), 0)
                     ELSE DigitsValue(Tail(chars), 0)]
       ELSE [ok |-> FALSE, val |-> 0]
  ELSE IF AllDigits(chars)
       THEN [ok |-> TRUE, val |-> DigitsValue(chars, 0)]
       ELSE [ok |-> FALSE, val |-> 0]

----------------------------------------------------------------------------
(* The error envelope { error: { code, message, details } } as decoded     *)
(* JSON.  details["Retry-After"] is absent, a string, a number or null.    *)

RetryAbsent      == [tag |-> "absent", chars |-> <<>>, num |-> 0]
RetryNull        == [tag |-> "null",   chars |-> <<>>, num |-> 0]
RetryStr(chars)  == [tag |-> "str",    chars |-> chars, num |-> 0]
RetryNum(n)      == [tag |-> "int",    chars |-> <<>>, num |-> n]

RetryAfterValues ==
  { RetryAbsent, RetryNull, RetryNum(7),
    RetryStr(<<"3", "0">>), RetryStr(<<"-", "5">>),
    RetryStr(<<"n", "o", "t", "-", "a", "-", "n", "u", "m", "b", "e", "r">>),
    RetryStr(<<>>) }

\* a details mapping: st = "map"; a missing or null details: st = "absent" / "null"
Details(st, ra, srv, tool, appr, pat, sev) ==
  [st |-> st, retry_after |-> ra, mcp_server |-> srv, tool_name |-> tool,
   requires_approval |-> appr, pattern |-> pat, severity |-> sev]

EmptyDetails  == Details("map", RetryAbsent, Absent, Absent, Absent, Absent, Absent)
AbsentDetails == Details("absent", RetryAbsent, Absent, Absent, Absent, Absent, Absent)
NullDetails   == Details("null", RetryAbsent, Absent, Absent, Absent, Absent, Absent)

DetailMaps ==
  { Details("map", ra, f[1], f[2], f[3], f[4], f[5]) :
      ra \in RetryAfterValues,
      f \in { <<Absent, Absent, Absent, Absent, Absent>>,
              <<"filesystem", "delete_file", "True", Absent, Absent>>,
              <<"filesystem", "delete_file", Absent, Absent, Absent>>,
              <<Absent, None, "False", Absent, Absent>>,
              <<Absent, Absent, Absent, "ignore instructions", "high">>,
              <<Absent, Absent, Absent, None, Absent>> } }

DetailsValues == DetailMaps \cup {AbsentDetails, NullDetails}

Envelope(st, code, message, details) ==
  [st |-> st, code |-> code, message |-> message, details |-> details]

AbsentEnvelope == Envelope("absent", Absent, Absent, AbsentDetails)
NullEnvelope   == Envelope("null", Absent, Absent, AbsentDetails)

CodeValues == {Absent, None, "", "tool_access_denied", "injection_detected", "internal_error"}

MessageValues == {Absent, None, "Invalid API key"}

EnvelopeValues ==
  { Envelope("map", c, m, d) : c \in CodeValues, m \in MessageValues, d \in DetailsValues }
    \cup {AbsentEnvelope, NullEnvelope}

\* what response.json() yields: an object (with or without "error"), or a
\* JSON value that is no object (an array)
\* a JSON array field of a mapping: missing, null, or a list of items
AbsentList  == [st |-> "absent", items |-> <<>>]
NullList    == [st |-> "null", items |-> <<>>]
List(items) == [st |-> "list", items |-> items]

\* a JSON object: its "error" key and the array field a capability call reads
\* from it ("tools", "resources", "prompts", "messages" or "traces")
JsonObjectWith(env, items) == [kind |-> "object", error |-> env, items |-> items]

JsonObject(env) == JsonObjectWith(env, AbsentList)
JsonArray       == [kind |-> "array", error |-> AbsentEnvelope, items |-> AbsentList]
EmptyObject     == JsonObject(AbsentEnvelope)

JsonValues == { JsonObject(e) : e \in EnvelopeValues } \cup {JsonArray}

----------------------------------------------------------------------------
(* exceptions.py: the error taxonomy.  An exception is a record; the        *)
(* attributes a class does not define are Absent.                           *)

Taxonomy ==
  { "GatewayOpsError", "AuthenticationError", "RateLimitError", "NotFoundError",
    "ValidationError", "InjectionDetectedError", "ToolAccessDeniedError",
    "ServerError", "TimeoutError", "NetworkError" }

\* `details or {}` (exceptions.py:20)
OrEmpty(details) == IF details.st = "map" THEN details ELSE EmptyDetails

\* GatewayOpsError.__init__ (also reached through every subclass's super().__init__)
GatewayOpsError(cls, message, code, status_code, details) ==
  [exc |-> cls, message |-> message, code |-> code, status_code |-> status_code,
   details |-> OrEmpty(details), retry_after |-> NoInt,
   mcp_server |-> Absent, tool_name |-> Absent, requires_approval |-> Absent,
   pattern |-> Absent, severity |-> Absent]

AuthenticationError(message, code, details) ==
  GatewayOpsError("AuthenticationError", message, code, SomeInt(401), details)

RateLimitError(message, retry_after, details) ==
  [GatewayOpsError("RateLimitError", message, "rate_limit_exceeded", SomeInt(429), details)
     EXCEPT !.retry_after = retry_after]

NotFoundError(message, details) ==
  GatewayOpsError("NotFoundError", message, "not_found", SomeInt(404), details)

ValidationError(message, details) ==
  GatewayOpsError("ValidationError", message, "validation_error", SomeInt(400), details)

InjectionDetectedError(message, pattern, severity, details) ==
  [GatewayOpsError("InjectionDetectedError", message, "injection_detected", SomeInt(400), details)
     EXCEPT !.pattern = pattern, !.severity = severity]

ToolAccessDeniedError(message, mcp_server, tool_name, requires_approval, details) ==
  [GatewayOpsError("ToolAccessDeniedError", message, "tool_access_denied", SomeInt(403), details)
     EXCEPT !.mcp_server = mcp_server, !.tool_name = tool_name,
            !.requires_approval = requires_approval]

\* `code or "server_error"`, status_code fixed to 500 (exceptions.py:122)
ServerError(message, code, details) ==
  GatewayOpsError("ServerError", message,
                  IF code \in {None, ""} THEN "server_error" ELSE code, SomeInt(500), details)

TimeoutError(message, details) ==
  GatewayOpsError("TimeoutError", message, "timeout", SomeInt(408), details)

NetworkError(message) ==
  GatewayOpsError("NetworkError", message, "network_error", NoInt, AbsentDetails)

\* an exception of the interpreter, outside the taxonomy
BuiltinError(cls) ==
  [exc |-> cls, message |-> Absent, code |-> Absent, status_code |-> NoInt,
   details |-> EmptyDetails, retry_after |-> NoInt,
   mcp_server |-> Absent, tool_name |-> Absent, requires_approval |-> Absent,
   pattern |-> Absent, severity |-> Absent]

IsTyped(e) == e.exc \in Taxonomy

----------------------------------------------------------------------------
(* client.py:168-205  GatewayOps._raise_for_error                           *)

\* dict.get(key, default): the default only when the key is missing
DictGet(value, default) == IF value = Absent THEN default ELSE value

\* dict.get(key): None when the key is missing
DictGetNone(value) == DictGet(value, None)

\* int(details["Retry-After"]) (client.py:191): [exc, val], exc = "" when it succeeds
IntOf(ra) ==
  CASE ra.tag = "int"  -> [exc |-> "", val |-> ra.num]
    [] ra.tag = "null" -> [exc |-> "TypeError", val |-> 0]
    [] OTHER           -> IF ParseInt(ra.chars).ok
                          THEN [exc |-> "", val |-> ParseInt(ra.chars).val]
                          ELSE [exc |-> "ValueError", val |-> 0]

\* the 429 branch (client.py:188-192); details is a mapping or None
RateLimitBranch(message, details) ==
  IF details.st # "map" THEN BuiltinError("TypeError")
  ELSE IF details.retry_after.tag = "absent"
       THEN RateLimitError(message, NoInt, details)
       ELSE IF IntOf(details.retry_after).exc # ""
            THEN BuiltinError(IntOf(details.retry_after).exc)
            ELSE RateLimitError(message, SomeInt(IntOf(details.retry_after).val), details)

\* requires_approval left at the constructor's default instead of read from details
ToolAccessDeniedBranchNoApproval(message, details) ==
  IF details.st # "map" THEN BuiltinError("AttributeError")
  ELSE ToolAccessDeniedError(message,
                             DictGetNone(details.mcp_server),
                             DictGetNone(details.tool_name),
                             "False",
                             details)

\* the 403 / tool_access_denied branch (client.py:178-184)
ToolAccessDeniedBranch(message, details) ==
  IF details.st # "map" THEN BuiltinError("AttributeError")
  ELSE ToolAccessDeniedError(message,
                             DictGetNone(details.mcp_server),
                             DictGetNone(details.tool_name),
                             DictGet(details.requires_approval, "False"),
                             details)

\* the 400 / injection_detected branch (client.py:195-200)
InjectionBranch(message, details) ==
  IF details.st # "map" THEN BuiltinError("AttributeError")
  ELSE InjectionDetectedError(message,
                              DictGetNone(details.pattern),
                              DictGetNone(details.severity),
                              details)

\* lines 174-205, after the three lookups of lines 170-172
Classify(status_code, error_code, message, details) ==
  CASE status_code = 401 -> AuthenticationError(message, error_code, details)
    [] status_code = 403 ->
         IF error_code = "tool_access_denied"
         THEN ToolAccessDeniedBranch(message, details)
         ELSE GatewayOpsError("GatewayOpsError", message, error_code, SomeInt(403), details)
    [] status_code = 404 -> NotFoundError(message, details)
    [] status_code = 429 -> RateLimitBranch(message, details)
    [] status_code = 400 ->
         IF error_code = "injection_detected"
         THEN InjectionBranch(message, details)
         ELSE ValidationError(message, details)
    [] OTHER ->
         IF status_code >= 500
         THEN ServerError(message, error_code, details)
         ELSE GatewayOpsError("GatewayOpsError", message, error_code,
                              SomeInt(status_code), details)

\* data.get("error", {}).get(key, default) (client.py:170-172) for a data that
\* is an object whose "error" is missing or a mapping
EnvelopeGet(env, value, default) ==
  IF env.st = "absent" THEN default ELSE DictGet(value, default)

EnvelopeDetails(env) ==
  IF env.st = "absent" \/ env.details.st = "absent" THEN EmptyDetails ELSE env.details

\* the exception _raise_for_error ends with: it never returns
RaiseForError(status_code, data) ==
  IF data.kind # "object" THEN BuiltinError("AttributeError")
  ELSE IF data.error.st = "null" THEN BuiltinError("AttributeError")
  ELSE Classify(status_code,
                EnvelopeGet(data.error, data.error.code, "unknown"),
                EnvelopeGet(data.error, data.error.message, "Unknown error"),
                EnvelopeDetails(data.error))

----------------------------------------------------------------------------
(* client.py:156-166  GatewayOps._handle_response                           *)

\* how a call ends: it returns a decoded body or raises an exception
NoData  == [kind |-> "none", error |-> AbsentEnvelope, items |-> AbsentList]
NoError == BuiltinError("<none>")

Return(data) == [kind |-> "return", data |-> data, err |-> NoError]
Raise(e)     == [kind |-> "raise", data |-> NoData, err |-> e]
NoResult     == [kind |-> "none", data |-> NoData, err |-> NoError]

\* a response body as received: response.json() succeeds with a JSON value or fails
Decodable(json) == [decodable |-> TRUE, json |-> json]
Undecodable     == [decodable |-> FALSE, json |-> NoData]

\* try: data = response.json()  except Exception: data = {}   (lines 158-161)
Decode(raw) == IF raw.decodable THEN raw.json ELSE EmptyObject

\* the boundary moved by one: a 400 is taken for a success
HandleResponseAbove400(status_code, raw) ==
  IF status_code > 400
  THEN Raise(RaiseForError(status_code, Decode(raw)))
  ELSE Return(Decode(raw))

\* lines 163-166
HandleResponse(status_code, raw) ==
  IF status_code >= 400
  THEN Raise(RaiseForError(status_code, Decode(raw)))
  ELSE Return(Decode(raw))

----------------------------------------------------------------------------
(* State                                                                    *)

Clients == {"gw1", "gw2"}
Threads == {"T1", "T2"}
Servers == {"filesystem", "db"}

\* GatewayOps(api_key=...) (client.py:61)
ApiKey(c) == IF c = "gw1" THEN "gwo_prd_1" ELSE "gwo_prd_2"

\* max_retries: int = 3 (client.py:50)
DefaultMaxRetries == 3

\* the largest number of trace ids uuid4() hands out in a run
MaxIds == 3
\* the largest number of MCPClient objects alive in a run
MaxMcps == 2
\* the transport answers this many invocations in one dispatch
MaxAttempts == 2

VARIABLES
  trace_context,  \* [Clients -> id]: GatewayOps._trace_context, NoTrace for None
  max_retries,    \* [Clients -> Nat]: GatewayOps.max_retries
  stacks,         \* [Threads -> Seq(frame)]: the open `with gw.trace(..)` blocks of a thread
  next_id,        \* the next fresh trace id
  nested,         \* [Clients -> BOOLEAN]: every scope exit so far was of the innermost open scope
  mcps,           \* Seq(MCPClient): the server clients created so far
  last,           \* the last dispatch: who made it, what went on the wire, how it ended
  arg,            \* what the transport ends with, when a step is applied on its own
  out             \* the result of the step applied to arg

vars == <<trace_context, max_retries, stacks, next_id, nested, mcps, last, arg, out>>

\* self._trace_context = None (client.py:65)
NoTrace == 0

\* a suspended trace() generator: its client and its locals trace_id, old_context
Frame(c, trace_id, old_context) ==
  [client |-> c, trace_id |-> trace_id, old_context |-> old_context]

\* MCPClient.__init__ (client.py:211-214)
MCPClient(c, server) == [client |-> c, server |-> server, retries |-> max_retries[c]]

NoWire == <<>>
NoLast == [thread |-> "", client |-> "", via |-> 0, wire |-> NoWire, result |-> NoResult]
NoOut == [op |-> "none", result |-> NoResult]

NoArg == [kind |-> "none", status_code |-> 0, raw |-> Undecodable]

----------------------------------------------------------------------------
(* client.py:130-154  GatewayOps._request                                   *)

\* what one invocation of self._client.request ends with
TimeoutException == [kind |-> "timeout", status_code |-> 0, raw |-> Undecodable]
RequestError     == [kind |-> "error", status_code |-> 0, raw |-> Undecodable]
Response(status_code, raw) == [kind |-> "response", status_code |-> status_code, raw |-> raw]

\* the header set without the test of line 139
RequestHeadersAlways(c) == <<trace_context[c]>>

\* lines 138-140: the X-Trace-ID header of this request, <<>> when it is not set
RequestHeaders(c) ==
  IF trace_context[c] # NoTrace THEN <<trace_context[c]>> ELSE <<>>

\* the request httpx sends: the client's default headers (client.py:69-73)
\* merged with the headers of the call
WireRequest(c, x_trace_id) ==
  [authorization |-> "Bearer " \o ApiKey(c),
   content_type  |-> "application/json",
   x_trace_id    |-> x_trace_id]

\* the except clauses of lines 151-154 left out: the transport's exception escapes
RequestResultNative(o) ==
  CASE o.kind = "timeout" -> Raise(BuiltinError("httpx.TimeoutException"))
    [] o.kind = "error"   -> Raise(BuiltinError("httpx.RequestError"))
    [] OTHER              -> HandleResponse(o.status_code, o.raw)

\* line 152 raising the TimeoutError of exceptions.py:125 instead
RequestResultTimeout(o) ==
  CASE o.kind = "timeout" -> Raise(TimeoutError("Request timed out", AbsentDetails))
    [] o.kind = "error"   -> Raise(NetworkError("Network error"))
    [] OTHER              -> HandleResponse(o.status_code, o.raw)

\* lines 142-154: how the call ends, given what the transport invocation ended with
RequestResult(o) ==
  CASE o.kind = "timeout" -> Raise(NetworkError("Request timed out"))
    [] o.kind = "error"   -> Raise(NetworkError("Network error"))
    [] OTHER              -> HandleResponse(o.status_code, o.raw)

\* _request wrapped in a retry of the imported tenacity (client.py:6): a failed
\* invocation is repeated while max_retries allows
RequestRetrying(c, transport) ==
  IF transport[1].kind # "response" /\ max_retries[c] > 0
  THEN [wire   |-> <<WireRequest(c, RequestHeaders(c)), WireRequest(c, RequestHeaders(c))>>,
        result |-> RequestResult(transport[2])]
  ELSE [wire   |-> <<WireRequest(c, RequestHeaders(c))>>,
        result |-> RequestResult(transport[1])]

\* a classifier that reads the caller's state: inside a trace scope the body
\* of a response is not looked at
RequestTraced(c, transport) ==
  [wire   |-> <<WireRequest(c, RequestHeaders(c))>>,
   result |-> IF trace_context[c] # NoTrace /\ transport[1].kind = "response"
              THEN HandleResponse(transport[1].status_code, Undecodable)
              ELSE RequestResult(transport[1])]

\* _request on client c; transport[n] is what the n-th invocation of the
\* transport would end with.  wire: the requests sent, in order.
Request(c, transport) ==
  [wire   |-> <<WireRequest(c, RequestHeaders(c))>>,
   result |-> RequestResult(transport[1])]

----------------------------------------------------------------------------
(* client.py:99-118  GatewayOps.trace                                       *)

\* the open scopes of client c, over all threads
OpenFrames(c) ==
  { f \in UNION { { stacks[t][i] : i \in DOMAIN stacks[t] } : t \in Threads } :
      f.client = c }

\* trace ids are handed out in increasing order, so the scope entered last is
\* the one with the largest id
InnermostId(c) ==
  IF OpenFrames(c) = {} THEN NoTrace
  ELSE CHOOSE n \in { f.trace_id : f \in OpenFrames(c) } :
         \A f \in OpenFrames(c) : f.trace_id <= n

\* the trace context kept on the class, shared by every instance
EnterShared(t, c) ==
  /\ next_id <= MaxIds
  /\ stacks' = [stacks EXCEPT ![t] = Append(@, Frame(c, next_id, trace_context[c]))]
  /\ trace_context' = [d \in Clients |-> next_id]
  /\ next_id' = next_id + 1
  /\ UNCHANGED <<max_retries, nested, mcps, last, arg, out>>

\* lines 112-114, up to the yield: thread t enters `with c.trace(name)`
Enter(t, c) ==
  /\ next_id <= MaxIds
  /\ stacks' = [stacks EXCEPT ![t] = Append(@, Frame(c, next_id, trace_context[c]))]
  /\ trace_context' = [trace_context EXCEPT ![c] = next_id]
  /\ next_id' = next_id + 1
  /\ UNCHANGED <<max_retries, nested, mcps, last, arg, out>>

\* the scope exit clearing the context instead of restoring it
RestoredNone(f) == NoTrace

\* a restoration that puts back the saved id only while its scope is open
RestoredOpen(f) ==
  IF \E g \in OpenFrames(f.client) : g.trace_id = f.old_context
  THEN f.old_context
  ELSE NoTrace

\* the value line 118 stores when frame f is resumed
Restored(f) == f.old_context

\* lines 117-118: thread t leaves its innermost with-block, normally or with
\* an exception of the body: the finally clause runs either way
Exit(t) ==
  /\ stacks[t] # <<>>
  /\ LET f == stacks[t][Len(stacks[t])]
     IN /\ trace_context' = [trace_context EXCEPT ![f.client] = Restored(f)]
        /\ nested' = [nested EXCEPT ![f.client] = @ /\ f.trace_id = InnermostId(f.client)]
  /\ stacks' = [stacks EXCEPT ![t] = SubSeq(@, 1, Len(@) - 1)]
  /\ UNCHANGED <<max_retries, next_id, mcps, last, arg, out>>

----------------------------------------------------------------------------
(* client.py:87-97, 208-235  the server clients                             *)

\* GatewayOps.mcp(server)
Mcp(c, server) ==
  /\ Len(mcps) < MaxMcps
  /\ mcps' = Append(mcps, MCPClient(c, server))
  /\ UNCHANGED <<trace_context, max_retries, stacks, next_id, nested, last, arg, out>>

\* the retry counts with_retries is called with
RetryChoices == {0, 5}

\* with_retries setting self._retries and returning self
WithRetriesInPlace(i, retries) ==
  /\ i \in DOMAIN mcps
  /\ Len(mcps) < MaxMcps
  /\ mcps' = [mcps EXCEPT ![i].retries = retries]
  /\ UNCHANGED <<trace_context, max_retries, stacks, next_id, nested, last, arg, out>>

\* MCPClient.with_retries(retries) on the i-th server client (lines 231-235)
WithRetries(i, retries) ==
  /\ i \in DOMAIN mcps
  /\ Len(mcps) < MaxMcps
  /\ mcps' = Append(mcps, [MCPClient(mcps[i].client, mcps[i].server)
                              EXCEPT !.retries = retries])
  /\ UNCHANGED <<trace_context, max_retries, stacks, next_id, nested, last, arg, out>>

----------------------------------------------------------------------------
(* The calls that reach _request                                            *)

\* what the transport ends a dispatch with
TransportOutcomes ==
  { TimeoutException, RequestError,
    Response(200, Decodable(EmptyObject)),
    Response(429, Decodable(JsonObject(Envelope("map", "rate_limited", "Too many requests",
        Details("map",
                RetryStr(<<"n", "o", "t", "-", "a", "-", "n", "u", "m", "b", "e", "r">>),
                Absent, Absent, Absent, Absent, Absent))))),
    Response(503, Undecodable) }

\* what a further invocation of the transport in the same dispatch would end with
LaterOutcome == Response(200, Decodable(EmptyObject))

\* what the transport would end with on each invocation of one dispatch
Transport(first) == [n \in 1..MaxAttempts |-> IF n = 1 THEN first ELSE LaterOutcome]

Dispatched(t, c, via, transport) ==
  [thread |-> t, client |-> c, via |-> via,
   wire |-> Request(c, transport).wire,
   result |-> Request(c, transport).result]

\* a dispatch that drops the trace context when the call raises
RootRequestClearing(t, c, transport) ==
  /\ last' = Dispatched(t, c, 0, transport)
  /\ trace_context' = IF Request(c, transport).result.kind = "raise"
                      THEN [trace_context EXCEPT ![c] = NoTrace]
                      ELSE trace_context
  /\ UNCHANGED <<max_retries, stacks, next_id, nested, mcps, arg, out>>

\* thread t calls through the root client c: c.traces / c.costs, which hold
\* the root (client.py:120-128, 339-417)
RootRequest(t, c, transport) ==
  /\ last' = Dispatched(t, c, 0, transport)
  /\ UNCHANGED <<trace_context, max_retries, stacks, next_id, nested, mcps, arg, out>>

\* thread t calls through the i-th server client: its tools / resources /
\* prompts clients hold the root (client.py:216-229, 243-336)
McpRequest(t, i, transport) ==
  /\ i \in DOMAIN mcps
  /\ last' = Dispatched(t, mcps[i].client, i, transport)
  /\ UNCHANGED <<trace_context, max_retries, stacks, next_id, nested, mcps, arg, out>>

----------------------------------------------------------------------------
(* The client as a state machine                                            *)

Init ==
  /\ trace_context = [c \in Clients |-> NoTrace]
  /\ max_retries = [c \in Clients |-> IF c = "gw1" THEN DefaultMaxRetries ELSE 1]
  /\ stacks = [t \in Threads |-> <<>>]
  /\ next_id = 1
  /\ nested = [c \in Clients |-> TRUE]
  /\ mcps = <<>>
  /\ last = NoLast
  /\ arg = NoArg
  /\ out = NoOut

\* two threads sharing two root clients: trace scopes and calls through the roots
Next ==
  \/ \E t \in Threads, c \in Clients : Enter(t, c)
  \/ \E t \in Threads : Exit(t)
  \/ \E t \in Threads, c \in Clients, o \in TransportOutcomes :
       RootRequest(t, c, Transport(o))

Spec == Init /\ [][Next]_vars

\* one thread on one root client and the server clients made from it
McpNext ==
  \/ Enter("T1", "gw1")
  \/ Exit("T1")
  \/ \E s \in Servers : Mcp("gw1", s)
  \/ \E i \in 1..MaxMcps, n \in RetryChoices : WithRetries(i, n)
  \/ \E o \in TransportOutcomes : RootRequest("T1", "gw1", Transport(o))
  \/ \E i \in 1..MaxMcps, o \in TransportOutcomes : McpRequest("T1", i, Transport(o))

McpSpec == Init /\ [][McpNext]_vars

----------------------------------------------------------------------------
(* The dispatcher's steps on their own, over every outcome of the transport *)

Statuses == {200, 302, 399, 400, 401, 402, 403, 404, 418, 429, 499, 500, 503, 599}

RawBodies == { Decodable(j) : j \in JsonValues } \cup {Undecodable}

Outcomes ==
  {TimeoutException, RequestError} \cup
  { Response(s, raw) : s \in Statuses, raw \in RawBodies }

ClassifyInit ==
  /\ trace_context = [c \in Clients |-> NoTrace]
  /\ max_retries = [c \in Clients |-> IF c = "gw1" THEN DefaultMaxRetries ELSE 1]
  /\ stacks = [t \in Threads |-> <<>>]
  /\ next_id = 1
  /\ nested = [c \in Clients |-> TRUE]
  /\ mcps = <<>>
  /\ last = NoLast
  /\ arg \in Outcomes
  /\ out = NoOut

\* self._raise_for_error(status_code, data) for the decoded data of a response
ClassifyStep ==
  /\ out.op = "none"
  /\ arg.kind = "response"
  /\ out' = [op |-> "classify",
             result |-> Raise(RaiseForError(arg.status_code, Decode(arg.raw)))]
  /\ UNCHANGED <<trace_context, max_retries, stacks, next_id, nested, mcps, last, arg>>

\* self._handle_response(response)
HandleStep ==
  /\ out.op = "none"
  /\ arg.kind = "response"
  /\ out' = [op |-> "handle", result |-> HandleResponse(arg.status_code, arg.raw)]
  /\ UNCHANGED <<trace_context, max_retries, stacks, next_id, nested, mcps, last, arg>>

\* self._request(...) when the transport ends with arg
RequestStep ==
  /\ out.op = "none"
  /\ out' = [op |-> "request", result |-> Request("gw1", Transport(arg)).result]
  /\ UNCHANGED <<trace_context, max_retries, stacks, next_id, nested, mcps, last, arg>>

ClassifyNext == ClassifyStep \/ HandleStep \/ RequestStep

ClassifySpec == ClassifyInit /\ [][ClassifyNext]_vars

----------------------------------------------------------------------------
(* Properties of the classifier (ClassifySpec)                              *)

\* the body the step was applied to, decoded
ArgData == Decode(arg.raw)

\* the decision table of the error classifier: status first, code second
TableVariant(status_code, code) ==
  CASE status_code = 401 -> "AuthenticationError"
    [] status_code = 403 ->
         IF code = "tool_access_denied" THEN "ToolAccessDeniedError" ELSE "GatewayOpsError"
    [] status_code = 404 -> "NotFoundError"
    [] status_code = 429 -> "RateLimitError"
    [] status_code = 400 ->
         IF code = "injection_detected" THEN "InjectionDetectedError" ELSE "ValidationError"
    [] OTHER -> IF status_code >= 500 THEN "ServerError" ELSE "GatewayOpsError"

\* a body whose envelope, where present, holds no null
NoNulls(data) ==
  /\ data.kind = "object"
  /\ data.error.st # "null"
  /\ data.error.code # None
  /\ data.error.message # None
  /\ data.error.details.st # "null"
  /\ data.error.details.retry_after.tag # "null"

\* the error code of a body, "unknown" when it has none
BodyCode(data) ==
  IF data.error.st = "map" /\ data.error.code # Absent THEN data.error.code ELSE "unknown"

\* C1: for every status >= 400 and every error code the classifier raises the
\* variant of the decision table (a generic 403 carrying status 403)
C1_DecisionTable ==
  (out.op = "classify" /\ arg.status_code >= 400 /\ NoNulls(ArgData)) =>
    /\ out.result.err.exc = TableVariant(arg.status_code, BodyCode(ArgData))
    /\ (arg.status_code = 403 /\ out.result.err.exc = "GatewayOpsError"
          => out.result.err.status_code = SomeInt(403))

\* C2: a 429 whose details hold a Retry-After string always yields a
\* RateLimitError: retry_after is the integer when the string is numeric and
\* None when it is not
C2_RetryAfterNeverFails ==
  (/\ out.op = "classify"
   /\ arg.status_code = 429
   /\ NoNulls(ArgData)
   /\ ArgData.error.st = "map"
   /\ ArgData.error.details.st = "map"
   /\ ArgData.error.details.retry_after.tag = "str") =>
    /\ out.result.err.exc = "RateLimitError"
    /\ out.result.err.retry_after =
         IF ParseInt(ArgData.error.details.retry_after.chars).ok
         THEN SomeInt(ParseInt(ArgData.error.details.retry_after.chars).val)
         ELSE NoInt

\* C3: for every status and every body that is a mapping, with the envelope,
\* its code, its message or its details missing or null, the classifier raises
\* an error of the taxonomy, with the generic message and the empty details
\* for what is absent
C3_ClassifierTotal ==
  (out.op = "classify" /\ ArgData.kind = "object") =>
    /\ IsTyped(out.result.err)
    /\ (ArgData.error.st # "map" \/ ArgData.error.message \in {Absent, None}
          => out.result.err.message = "Unknown error")
    /\ (ArgData.error.st # "map" \/ ArgData.error.details.st # "map"
          => out.result.err.details = EmptyDetails)

----------------------------------------------------------------------------
(* Properties of the dispatcher's steps (ClassifySpec)                      *)

\* C4: a dispatch whose transport failed or answered a status >= 400 ends by
\* raising an error of the taxonomy
C4_FailedDispatchTyped ==
  (out.op = "request" /\ (arg.kind # "response" \/ arg.status_code >= 400)) =>
    /\ out.result.kind = "raise"
    /\ IsTyped(out.result.err)

C7_Boundary400 ==
  (out.op = "handle") =>
    /\ (arg.status_code < 400 =>
          /\ out.result.kind = "return"
          /\ out.result.err = NoError
          /\ out.result.data = (IF arg.raw.decodable THEN arg.raw.json ELSE EmptyObject))
    /\ (arg.status_code >= 400 =>
          /\ out.result.kind = "raise"
          /\ out.result.data = NoData
          /\ out.result.err # NoError
          /\ (~arg.raw.decodable =>
                /\ IsTyped(out.result.err)
                /\ out.result.err.message = "Unknown error"
                /\ out.result.err.details = EmptyDetails
                /\ out.result.err.code \in
                     {"unknown", "not_found", "rate_limit_exceeded", "validation_error"}))

C7_Witness ==
  /\ out.op = "handle"
  /\ arg.status_code = 400
  /\ ~arg.raw.decodable
  /\ out.result.err.exc = "ValidationError"

----------------------------------------------------------------------------
(* Properties of the clients (Spec, McpSpec)                                *)

\* C8: a dispatch invokes the transport once, whatever it ends with and
\* whatever retry count the root or the server client holds
C8_OneInvocation ==
  last.thread # "" => Len(last.wire) = 1

C8_Witness ==
  /\ last.via \in DOMAIN mcps
  /\ mcps[last.via].retries = 5
  /\ max_retries[last.client] = DefaultMaxRetries
  /\ last.result.err.exc = "NetworkError"
  /\ Len(last.wire) = 1

\* C9: while scopes are entered and exited in nested order, the active trace
\* id of a client is the id of its innermost open scope, and None when no
\* scope is open; ids are fresh
C9_ScopesNest ==
  \A c \in Clients :
    /\ nested[c] => trace_context[c] = InnermostId(c)
    /\ \A f \in OpenFrames(c) : f.trace_id < next_id /\ f.old_context # f.trace_id

\* scope B (id 2) was entered inside scope A (id 1), a dispatch inside B
\* raised, B was left and A is active again
C9_Witness ==
  /\ Len(stacks["T1"]) = 1
  /\ stacks["T1"][1] = Frame("gw1", 1, NoTrace)
  /\ stacks["T2"] = <<>>
  /\ last.thread = "T1"
  /\ last.client = "gw1"
  /\ last.result.kind = "raise"
  /\ last.wire[1].x_trace_id = <<2>>
  /\ nested["gw1"]
  /\ trace_context["gw1"] = 1

----------------------------------------------------------------------------
(* Trace context and retry counts are per object (Spec, McpSpec)            *)

\* the trace ids client c holds: its active id and those of its open scopes
IdsOf(c) ==
  ({trace_context[c]} \cup { f.trace_id : f \in OpenFrames(c) }
     \cup { f.old_context : f \in OpenFrames(c) }) \ {NoTrace}

\* the step enters or exits a scope of client c
ScopeStepOn(c) ==
  \E t \in Threads :
    \/ /\ Len(stacks'[t]) > Len(stacks[t])
       /\ stacks'[t][Len(stacks'[t])].client = c
    \/ /\ Len(stacks'[t]) < Len(stacks[t])
       /\ stacks[t][Len(stacks[t])].client = c

\* C11: entering or exiting a scope on one client leaves the active trace id
\* of every other client as it was, and a request of a client never carries
\* a trace id held by another client
C11_PerInstance ==
  [][ \A c \in Clients :
        /\ (trace_context'[c] # trace_context[c] => ScopeStepOn(c))
        /\ (last' # last /\ last'.client = c =>
              \A d \in Clients \ {c}, i \in DOMAIN last'.wire :
                \A n \in IdsOf(d) : last'.wire[i].x_trace_id # <<n>>) ]_vars

\* scopes 1 (on gw1) and 2 (on gw2) are both open, each client holds its own
\* id, and a request of gw2 made inside them carried gw2's id
C11_Witness ==
  /\ trace_context["gw1"] = 1
  /\ trace_context["gw2"] = 2
  /\ Frame("gw1", 1, NoTrace) \in OpenFrames("gw1")
  /\ Frame("gw2", 2, NoTrace) \in OpenFrames("gw2")
  /\ last.client = "gw2"
  /\ last.wire[1].x_trace_id = <<2>>

\* C12: with_retries(n) adds a new server client of the same root and server
\* whose retry count is n; the server clients that exist keep their retry
\* counts and the root keeps its max_retries
C12_WithRetriesCopies ==
  [][ mcps' # mcps =>
        /\ Len(mcps') = Len(mcps) + 1
        /\ SubSeq(mcps', 1, Len(mcps)) = mcps
        /\ max_retries' = max_retries
        /\ LET new == mcps'[Len(mcps')]
           IN  \/ new.retries = max_retries[new.client]
               \/ /\ new.retries \in RetryChoices
                  /\ \E i \in DOMAIN mcps :
                       /\ mcps[i].client = new.client
                       /\ mcps[i].server = new.server ]_vars

C12_Witness ==
  /\ Len(mcps) = 2
  /\ mcps[1] = [client |-> "gw1", server |-> "db", retries |-> DefaultMaxRetries]
  /\ mcps[2] = [client |-> "gw1", server |-> "db", retries |-> 5]
  /\ max_retries["gw1"] = DefaultMaxRetries

\* C20: a dispatch, whether it returns or raises, leaves the active trace id
\* of every client as it was
C20_DispatchKeepsTrace ==
  [][ last' # last => trace_context' = trace_context ]_vars

\* a dispatch inside a scope raised and the scope's id is still the active one
C20_Witness ==
  /\ last.client = "gw1"
  /\ last.result.kind = "raise"
  /\ trace_context["gw1"] # NoTrace
  /\ last.wire[1].x_trace_id = <<trace_context["gw1"]>>
  /\ next_id = trace_context["gw1"] + 1

----------------------------------------------------------------------------
(* The fields of a classified error (ClassifySpec)                          *)

\* the details mapping of a decoded body, empty when it has none
BodyDetails(data) ==
  IF data.kind = "object" /\ data.error.st = "map" /\ data.error.details.st = "map"
  THEN data.error.details
  ELSE EmptyDetails

\* C18 as stated: an error raised for a received response carries the status
\* of that response, and an error raised for a transport failure carries none
C18_StatusCarried ==
  (out.op = "request" /\ out.result.kind = "raise" /\ IsTyped(out.result.err)) =>
    out.result.err.status_code =
      (IF arg.kind = "response" THEN SomeInt(arg.status_code) ELSE NoInt)

\* C19: a ToolAccessDeniedError takes mcp_server, tool_name and
\* requires_approval (False when missing) from the details, an
\* InjectionDetectedError takes pattern and severity, and every error of the
\* taxonomy holds the details mapping of the response
C19_FieldsCopied ==
  (out.op = "classify" /\ IsTyped(out.result.err)) =>
    LET e == out.result.err
        d == BodyDetails(ArgData)
    IN  /\ e.details = d
        /\ (e.exc = "ToolAccessDeniedError" =>
              /\ e.mcp_server = (IF d.mcp_server = Absent THEN None ELSE d.mcp_server)
              /\ e.tool_name = (IF d.tool_name = Absent THEN None ELSE d.tool_name)
              /\ e.requires_approval =
                   (IF d.requires_approval = Absent THEN "False" ELSE d.requires_approval))
        /\ (e.exc = "InjectionDetectedError" =>
              /\ e.pattern = (IF d.pattern = Absent THEN None ELSE d.pattern)
              /\ e.severity = (IF d.severity = Absent THEN None ELSE d.severity))

C19_Witness ==
  /\ out.op = "classify"
  /\ out.result.err.exc = "ToolAccessDeniedError"
  /\ out.result.err.requires_approval = "True"
  /\ out.result.err.mcp_server = "filesystem"
  /\ out.result.err.tool_name = "delete_file"

----------------------------------------------------------------------------
(* types.py:115-171  TracePage and CostSummary                              *)

\* an int field with a default: the value given, else the default
IntField(given, default) == IF given = NoInt THEN default ELSE given[1]

\* a field with a default: the value given, else the default
Field(given, default) == IF given = Absent THEN default ELSE given

\* an Optional[List[...]] = None field
ListField(given) == IF given.st = "absent" THEN NullList ELSE given

DefaultLimit == 20
MaxCount     == 2

\* the keyword arguments TracePage is built from
PageCounts == {NoInt} \cup { SomeInt(n) : n \in (0..MaxCount) \cup
                               {DefaultLimit - 1, DefaultLimit, DefaultLimit + 1} }
TraceLists == {AbsentList, NullList, List(<<>>), List(<<"tr-1">>), List(<<"tr-1", "tr-2">>)}
PageData   == [traces : TraceLists, total : PageCounts, limit : PageCounts, offset : PageCounts]
NoPageData == [traces |-> AbsentList, total |-> NoInt, limit |-> NoInt, offset |-> NoInt]

\* has_more with the boundary counted in
HasMoreInclusive(page) == page.offset + page.limit <= page.total

\* TracePage.has_more (lines 123-126)
HasMore(page) == page.offset + page.limit < page.total

\* TracePage.__init__ (lines 128-132) and the field defaults (lines 118-121)
TracePage(data) ==
  [traces |-> IF data.traces.st \in {"absent", "null"} THEN List(<<>>) ELSE data.traces,
   total  |-> IntField(data.total, 0),
   limit  |-> IntField(data.limit, DefaultLimit),
   offset |-> IntField(data.offset, 0)]

\* the keyword arguments CostSummary is built from; costs in whole units
Costs      == {NoInt, SomeInt(0), SomeInt(5)}
Counts     == {NoInt, SomeInt(0), SomeInt(7)}
Periods    == {Absent, "month", "day"}
Dates      == {Absent, None, "2024-01-01T00:00:00Z"}
Breakdowns == {AbsentList, NullList, List(<<"filesystem">>)}
CostData   == [total_cost : Costs, total_requests : Counts,
               avg_cost_per_request : {NoInt, SomeInt(1)},
               period : Periods, start_date : Dates, end_date : Dates,
               by_server : Breakdowns, by_team : {AbsentList, List(<<>>)},
               by_tool : {AbsentList, NullList}]
NoCostData == [total_cost |-> NoInt, total_requests |-> NoInt,
               avg_cost_per_request |-> NoInt,
               period |-> Absent, start_date |-> Absent, end_date |-> Absent,
               by_server |-> AbsentList, by_team |-> AbsentList, by_tool |-> AbsentList]

\* the fields of CostSummary with their defaults (lines 150-158)
CostSummary(data) ==
  [total_cost           |-> IntField(data.total_cost, 0),
   total_requests       |-> IntField(data.total_requests, 0),
   avg_cost_per_request |-> IntField(data.avg_cost_per_request, 0),
   period               |-> Field(data.period, "month"),
   start_date           |-> Field(data.start_date, None),
   end_date             |-> Field(data.end_date, None),
   by_server            |-> ListField(data.by_server),
   by_team              |-> ListField(data.by_team),
   by_tool              |-> ListField(data.by_tool)]

\* the views kept for backwards compatibility (lines 160-171)
PeriodStart(summary) == summary.start_date
PeriodEnd(summary)   == summary.end_date

\* request_count read from a count of its own that nothing sets
RequestCountOwn(summary) == 0

RequestCount(summary) == summary.total_requests

TypeArgs ==
  { [kind |-> "TracePage", page |-> d, cost |-> NoCostData] : d \in PageData } \cup
  { [kind |-> "CostSummary", page |-> NoPageData, cost |-> d] : d \in CostData }

NoTypeOut ==
  [op |-> "none", page |-> TracePage(NoPageData), has_more |-> FALSE,
   summary |-> CostSummary(NoCostData),
   period_start |-> None, period_end |-> None, request_count |-> 0]

TypesInit ==
  /\ trace_context = [c \in Clients |-> NoTrace]
  /\ max_retries = [c \in Clients |-> DefaultMaxRetries]
  /\ stacks = [t \in Threads |-> <<>>]
  /\ next_id = 1
  /\ nested = [c \in Clients |-> TRUE]
  /\ mcps = <<>>
  /\ last = NoLast
  /\ arg \in TypeArgs
  /\ out = NoTypeOut

\* page = TracePage(**data); page.has_more
TracePageStep ==
  /\ out.op = "none"
  /\ arg.kind = "TracePage"
  /\ out' = [out EXCEPT !.op = "TracePage",
                        !.page = TracePage(arg.page),
                        !.has_more = HasMore(TracePage(arg.page))]
  /\ UNCHANGED <<trace_context, max_retries, stacks, next_id, nested, mcps, last, arg>>

\* summary = CostSummary(**data), and its three views read
CostSummaryStep ==
  /\ out.op = "none"
  /\ arg.kind = "CostSummary"
  /\ out' = [out EXCEPT !.op = "CostSummary",
                        !.summary = CostSummary(arg.cost),
                        !.period_start = PeriodStart(CostSummary(arg.cost)),
                        !.period_end = PeriodEnd(CostSummary(arg.cost)),
                        !.request_count = RequestCount(CostSummary(arg.cost))]
  /\ UNCHANGED <<trace_context, max_retries, stacks, next_id, nested, mcps, last, arg>>

TypesNext == TracePageStep \/ CostSummaryStep

TypesSpec == TypesInit /\ [][TypesNext]_vars

\* C13: has_more of a page is (offset + limit < total) for the counts the page
\* was built from (total 0, limit 20, offset 0 where not given), and its
\* traces are a list, the empty one when the raw field is missing or null
C13_HasMore ==
  out.op = "TracePage" =>
    /\ out.has_more = (IntField(arg.page.offset, 0) + IntField(arg.page.limit, DefaultLimit)
                         < IntField(arg.page.total, 0))
    /\ out.page.traces.st = "list"
    /\ (arg.page.traces.st \in {"absent", "null"} => out.page.traces.items = <<>>)
    /\ (arg.page.traces.st = "list" => out.page.traces = arg.page.traces)

\* a page with null traces at the boundary offset + limit = total: no more
C13_Witness ==
  /\ out.op = "TracePage"
  /\ arg.page.traces.st = "null"
  /\ arg.page.total = SomeInt(DefaultLimit)
  /\ arg.page.limit = SomeInt(DefaultLimit - 1)
  /\ arg.page.offset = SomeInt(1)
  /\ ~out.has_more
  /\ out.page.traces = List(<<>>)

\* C14: a CostSummary built from nothing has total_cost 0, total_requests 0,
\* period "month" and no breakdown list; and the views of every CostSummary
\* equal its start_date, end_date and total_requests
C14_CostSummary ==
  out.op = "CostSummary" =>
    /\ (arg.cost = NoCostData =>
          /\ out.summary.total_cost = 0
          /\ out.summary.total_requests = 0
          /\ out.summary.period = "month"
          /\ out.summary.by_server = NullList
          /\ out.summary.by_team = NullList
          /\ out.summary.by_tool = NullList)
    /\ out.period_start = out.summary.start_date
    /\ out.period_end = out.summary.end_date
    /\ out.request_count = out.summary.total_requests
    /\ (arg.cost.total_requests # NoInt =>
          out.request_count = arg.cost.total_requests[1])
    /\ (arg.cost.start_date # Absent => out.period_start = arg.cost.start_date)
    /\ (arg.cost.end_date # Absent => out.period_end = arg.cost.end_date)

\* a summary given 7 requests and a start date shows them through the views
C14_Witness ==
  /\ out.op = "CostSummary"
  /\ arg.cost.total_requests = SomeInt(7)
  /\ arg.cost.start_date = "2024-01-01T00:00:00Z"
  /\ out.request_count = 7
  /\ out.period_start = "2024-01-01T00:00:00Z"

----------------------------------------------------------------------------
(* client.py:243-375  the capability calls                                  *)

\* the arguments the calls are made with; a mapping is a token, "{}" the empty one
EmptyMap == "{}"
ArgMaps  == {EmptyMap, "{path: /tmp}"}
Tools    == {"read_file", "delete_file"}
Uris     == {"file:///a", "file:///b"}
Prompts  == {"greet", "summarise"}
Filters  == {None, "", "db"}
Limits   == {NoInt, SomeInt(10)}
Offsets  == {NoInt, SomeInt(MaxCount)}

DefaultListLimit == 50

\* json=data of a request: None, or a mapping with the keys a call sets
NoBody == [st |-> "none", tool |-> Absent, arguments |-> Absent, uri |-> Absent, name |-> Absent]
ToolCallBody(tool, arguments) == [NoBody EXCEPT !.st = "map", !.tool = tool, !.arguments = arguments]
ReadBody(uri) == [NoBody EXCEPT !.st = "map", !.uri = uri]

\* the arguments passed on as given
PromptGetBodyRaw(name, arguments) ==
  [NoBody EXCEPT !.st = "map", !.name = name, !.arguments = arguments]

\* {"name": name, "arguments": arguments or {}} (line 333)
PromptGetBody(name, arguments) ==
  [NoBody EXCEPT !.st = "map", !.name = name,
                 !.arguments = IF arguments \in {None, EmptyMap} THEN EmptyMap ELSE arguments]

\* params of a request: None, or a mapping
NoParams == [st |-> "none", limit |-> NoInt, offset |-> NoInt,
             mcp_server |-> Absent, operation |-> Absent, status |-> Absent]

\* `if mcp_server:` of lines 365-370: None and "" are not sent
Truthy(value) == value # None /\ value # ""

\* every filter put in the query as given
TracesParamsAll(mcp_server, operation, status, limit, offset) ==
  [st |-> "map",
   limit |-> SomeInt(IntField(limit, DefaultListLimit)),
   offset |-> SomeInt(IntField(offset, 0)),
   mcp_server |-> mcp_server, operation |-> operation, status |-> status]

\* lines 364-370 with the defaults of lines 349-350
TracesParams(mcp_server, operation, status, limit, offset) ==
  [st |-> "map",
   limit |-> SomeInt(IntField(limit, DefaultListLimit)),
   offset |-> SomeInt(IntField(offset, 0)),
   mcp_server |-> IF Truthy(mcp_server) THEN mcp_server ELSE Absent,
   operation |-> IF Truthy(operation) THEN operation ELSE Absent,
   status |-> IF Truthy(status) THEN status ELSE Absent]

\* f"/v1/mcp/{self._server}/..."
McpPath(server, rest) == "/v1/mcp/" \o server \o rest

\* what a call hands to _request
HttpRequest(method, path, data, params) ==
  [method |-> method, path |-> path, data |-> data, params |-> params]

\* the requests one call puts on the wire, with the headers _request gives them
Sent(c, http, transport) ==
  [i \in DOMAIN Request(c, transport).wire |->
     [http |-> http, headers |-> Request(c, transport).wire[i]]]

\* how a capability call ends: with a value or with an exception
Returned(value) == [kind |-> "return", value |-> value, err |-> NoError]
Raised(e)       == [kind |-> "raise", value |-> AbsentList, err |-> e]
AnObject        == [st |-> "object", items |-> <<>>]

\* tools_data = response.get("tools", []); [ToolDefinition(**t) for t in tools_data]
\* (lines 253-254, 285-286, 317-318, 335-336); the items stand for well-formed elements
ParseList(result) ==
  IF result.kind = "raise" THEN Raised(result.err)
  ELSE IF result.data.kind # "object" THEN Raised(BuiltinError("AttributeError"))
  ELSE IF result.data.items.st = "absent" THEN Returned(List(<<>>))
  ELSE IF result.data.items.st = "null" THEN Raised(BuiltinError("TypeError"))
  ELSE Returned(result.data.items)

\* TracePage(**response) (line 373); the counts are left to their defaults
ParsePage(result) ==
  IF result.kind = "raise" THEN Raised(result.err)
  ELSE IF result.data.kind # "object" THEN Raised(BuiltinError("TypeError"))
  ELSE Returned(TracePage([NoPageData EXCEPT !.traces = result.data.items]).traces)

\* ToolCallResult(**response), ResourceContent(**response) (lines 272, 303) of
\* a body that holds the required fields
ParseObject(result) ==
  IF result.kind = "raise" THEN Raised(result.err)
  ELSE IF result.data.kind # "object" THEN Raised(BuiltinError("TypeError"))
  ELSE Returned(AnObject)

\* the arguments of a call, Absent where the call has none
NoCall == [server |-> "", tool |-> Absent, arguments |-> Absent, uri |-> Absent,
           name |-> Absent, mcp_server |-> Absent, operation |-> Absent,
           status |-> Absent, limit |-> NoInt, offset |-> NoInt]

NoOpsOut == [op |-> "none", call |-> NoCall, outcome |-> NoArg, sent |-> <<>>,
             result |-> Raised(NoError)]

\* a call through client c that hands http to _request; parsed is what it ends with
Called(op, call, c, http, transport, parsed) ==
  /\ out' = [op |-> op, call |-> call, outcome |-> transport[1],
             sent |-> Sent(c, http, transport), result |-> parsed]
  /\ last' = Dispatched("T1", c, 0, transport)
  /\ UNCHANGED <<trace_context, max_retries, stacks, next_id, nested, mcps, arg>>

\* mcps[i].tools.list() (lines 250-254)
ToolsList(i, transport) ==
  /\ i \in DOMAIN mcps
  /\ Called("tools.list", [NoCall EXCEPT !.server = mcps[i].server], mcps[i].client,
            HttpRequest("POST", McpPath(mcps[i].server, "/tools/list"), NoBody, NoParams),
            transport, ParseList(Request(mcps[i].client, transport).result))

\* mcps[i].tools.call(tool, **arguments) (lines 256-272)
ToolsCall(i, tool, arguments, transport) ==
  /\ i \in DOMAIN mcps
  /\ Called("tools.call",
            [NoCall EXCEPT !.server = mcps[i].server, !.tool = tool, !.arguments = arguments],
            mcps[i].client,
            HttpRequest("POST", McpPath(mcps[i].server, "/tools/call"),
                        ToolCallBody(tool, arguments), NoParams),
            transport, ParseObject(Request(mcps[i].client, transport).result))

\* mcps[i].resources.list() (lines 282-286)
ResourcesList(i, transport) ==
  /\ i \in DOMAIN mcps
  /\ Called("resources.list", [NoCall EXCEPT !.server = mcps[i].server], mcps[i].client,
            HttpRequest("POST", McpPath(mcps[i].server, "/resources/list"), NoBody, NoParams),
            transport, ParseList(Request(mcps[i].client, transport).result))

\* mcps[i].resources.read(uri) (lines 288-303)
ResourcesRead(i, uri, transport) ==
  /\ i \in DOMAIN mcps
  /\ Called("resources.read", [NoCall EXCEPT !.server = mcps[i].server, !.uri = uri],
            mcps[i].client,
            HttpRequest("POST", McpPath(mcps[i].server, "/resources/read"),
                        ReadBody(uri), NoParams),
            transport, ParseObject(Request(mcps[i].client, transport).result))

\* mcps[i].prompts.list() (lines 314-318)
PromptsList(i, transport) ==
  /\ i \in DOMAIN mcps
  /\ Called("prompts.list", [NoCall EXCEPT !.server = mcps[i].server], mcps[i].client,
            HttpRequest("POST", McpPath(mcps[i].server, "/prompts/list"), NoBody, NoParams),
            transport, ParseList(Request(mcps[i].client, transport).result))

\* mcps[i].prompts.get(name, arguments), arguments None when left out (lines 320-336)
PromptsGet(i, name, arguments, transport) ==
  /\ i \in DOMAIN mcps
  /\ Called("prompts.get",
            [NoCall EXCEPT !.server = mcps[i].server, !.name = name, !.arguments = arguments],
            mcps[i].client,
            HttpRequest("POST", McpPath(mcps[i].server, "/prompts/get"),
                        PromptGetBody(name, arguments), NoParams),
            transport, ParseList(Request(mcps[i].client, transport).result))

\* c.traces.list(mcp_server, operation, status, limit, offset), an argument
\* None or NoInt when left out (lines 345-373)
TracesList(c, mcp_server, operation, status, limit, offset, transport) ==
  Called("traces.list",
         [NoCall EXCEPT !.mcp_server = mcp_server, !.operation = operation,
                        !.status = status, !.limit = limit, !.offset = offset],
         c,
         HttpRequest("GET", "/v1/traces", NoBody,
                     TracesParams(mcp_server, operation, status, limit, offset)),
         transport, ParsePage(Request(c, transport).result))

\* what the transport ends a capability call with
OpsOutcomes ==
  { TimeoutException,
    Response(404, Decodable(EmptyObject)),
    Response(200, Undecodable),
    Response(200, Decodable(JsonArray)) } \cup
  { Response(200, Decodable(JsonObjectWith(AbsentEnvelope, l))) :
      l \in {AbsentList, NullList, List(<<>>), List(<<"a", "b">>)} }

OpsInit ==
  /\ trace_context = [c \in Clients |-> NoTrace]
  /\ max_retries = [c \in Clients |-> IF c = "gw1" THEN DefaultMaxRetries ELSE 1]
  /\ stacks = [t \in Threads |-> <<>>]
  /\ next_id = 1
  /\ nested = [c \in Clients |-> TRUE]
  /\ mcps = <<>>
  /\ last = NoLast
  /\ arg = NoArg
  /\ out = NoOpsOut

\* one thread making the capability calls of one root client
OpsNext ==
  \/ \E s \in Servers : Mcp("gw1", s)
  \/ \E i \in 1..MaxMcps, o \in OpsOutcomes : ToolsList(i, Transport(o))
  \/ \E i \in 1..MaxMcps, t \in Tools, a \in ArgMaps, o \in OpsOutcomes :
       ToolsCall(i, t, a, Transport(o))
  \/ \E i \in 1..MaxMcps, o \in OpsOutcomes : ResourcesList(i, Transport(o))
  \/ \E i \in 1..MaxMcps, u \in Uris, o \in OpsOutcomes : ResourcesRead(i, u, Transport(o))
  \/ \E i \in 1..MaxMcps, o \in OpsOutcomes : PromptsList(i, Transport(o))
  \/ \E i \in 1..MaxMcps, n \in Prompts, a \in ArgMaps \cup {None}, o \in OpsOutcomes :
       PromptsGet(i, n, a, Transport(o))
  \/ \E m \in Filters, op \in {None, "tools/call"}, st \in {None, ""},
        l \in Limits, f \in Offsets, o \in OpsOutcomes :
       TracesList("gw1", m, op, st, l, f, Transport(o))

OpsSpec == OpsInit /\ [][OpsNext]_vars

----------------------------------------------------------------------------
(* Properties of the capability calls (OpsSpec)                             *)

McpOps  == {"tools.list", "tools.call", "resources.list", "resources.read",
            "prompts.list", "prompts.get"}
ListOps == {"tools.list", "resources.list", "prompts.list", "prompts.get", "traces.list"}

\* C15: each of the six MCP calls made through mcp(s) issues one POST to
\* /v1/mcp/s/<family>/<verb> with the stated body: none for the lists,
\* {tool, arguments} for tools.call, {uri} for resources.read and
\* {name, arguments} for prompts.get, arguments being {} when left out
C15_McpRequests ==
  out.op \in McpOps =>
    LET s == out.call.server
        http == out.sent[1].http
    IN  /\ Len(out.sent) = 1
        /\ \E i \in DOMAIN mcps : mcps[i].server = s
        /\ http.method = "POST"
        /\ http.params.st = "none"
        /\ http.path = "/v1/mcp/" \o s \o
             (CASE out.op = "tools.list" -> "/tools/list"
                [] out.op = "tools.call" -> "/tools/call"
                [] out.op = "resources.list" -> "/resources/list"
                [] out.op = "resources.read" -> "/resources/read"
                [] out.op = "prompts.list" -> "/prompts/list"
                [] out.op = "prompts.get" -> "/prompts/get")
        /\ http.data =
             (CASE out.op = "tools.call" ->
                     [st |-> "map", tool |-> out.call.tool, arguments |-> out.call.arguments,
                      uri |-> Absent, name |-> Absent]
                [] out.op = "resources.read" ->
                     [st |-> "map", tool |-> Absent, arguments |-> Absent,
                      uri |-> out.call.uri, name |-> Absent]
                [] out.op = "prompts.get" ->
                     [st |-> "map", tool |-> Absent,
                      arguments |-> IF out.call.arguments = None THEN "{}"
                                    ELSE out.call.arguments,
                      uri |-> Absent, name |-> out.call.name]
                [] OTHER ->
                     [st |-> "none", tool |-> Absent, arguments |-> Absent,
                      uri |-> Absent, name |-> Absent])

\* prompts.get("greet") on server db, arguments left out
C15_Witness ==
  /\ out.op = "prompts.get"
  /\ out.call.arguments = None
  /\ out.call.name = "greet"
  /\ Len(out.sent) = 1
  /\ out.sent[1].http.path = "/v1/mcp/db/prompts/get"
  /\ out.sent[1].http.data.arguments = "{}"

\* what C16 says of every traces.list but the filters
TracesQuery ==
  /\ Len(out.sent) = 1
  /\ out.sent[1].http.method = "GET"
  /\ out.sent[1].http.path = "/v1/traces"
  /\ out.sent[1].http.params.st = "map"
  /\ out.sent[1].http.params.limit # NoInt
  /\ (out.call.limit # NoInt => out.sent[1].http.params.limit = out.call.limit)
  /\ out.sent[1].http.params.offset =
       (IF out.call.offset = NoInt THEN SomeInt(0) ELSE out.call.offset)

\* C16 as stated: the query of traces.list holds limit and offset, and each
\* of mcp_server, operation and status exactly when the filter was given
C16_FiltersWhenSupplied ==
  out.op = "traces.list" =>
    LET q == out.sent[1].http.params
    IN  /\ TracesQuery
        /\ (q.mcp_server # Absent <=> out.call.mcp_server # None)
        /\ (q.operation # Absent <=> out.call.operation # None)
        /\ (q.status # Absent <=> out.call.status # None)

\* C16: the query of traces.list holds limit and offset (offset 0 when not
\* given), and each of mcp_server, operation and status, with the value
\* given, exactly when the filter was given a non-empty value
C16_FiltersWhenNonEmpty ==
  out.op = "traces.list" =>
    LET q == out.sent[1].http.params
    IN  /\ TracesQuery
        /\ (q.mcp_server # Absent <=> out.call.mcp_server \notin {None, ""})
        /\ (q.operation # Absent <=> out.call.operation \notin {None, ""})
        /\ (q.status # Absent <=> out.call.status \notin {None, ""})
        /\ (q.mcp_server # Absent => q.mcp_server = out.call.mcp_server)
        /\ (q.operation # Absent => q.operation = out.call.operation)
        /\ (q.status # Absent => q.status = out.call.status)

\* traces.list(mcp_server="", operation="tools/call", limit=10): the empty
\* filter is left out, the other one is sent, offset is 0
C16_Witness ==
  /\ out.op = "traces.list"
  /\ out.call.mcp_server = ""
  /\ out.call.operation = "tools/call"
  /\ out.call.limit = SomeInt(10)
  /\ out.call.offset = NoInt
  /\ out.sent[1].http.params.mcp_server = Absent
  /\ out.sent[1].http.params.operation = "tools/call"
  /\ out.sent[1].http.params.offset = SomeInt(0)

\* C17 as stated: a list-style call answered by a successful response whose
\* array field is missing or null returns the empty sequence
C17_MissingArrayIsEmpty ==
  ( /\ out.op \in ListOps
    /\ out.outcome.kind = "response"
    /\ out.outcome.status_code < 400
    /\ out.outcome.raw.decodable
    /\ out.outcome.raw.json.kind = "object"
    /\ out.outcome.raw.json.items.st \in {"absent", "null"} )
  => out.result = Returned(List(<<>>))

----------------------------------------------------------------------------
(* The classifier does not read the caller's state (Spec)                   *)

\* failing responses of each row of the decision table
ErrorResponses ==
  { Response(401, Decodable(JsonObject(Envelope("map", Absent, "Invalid API key", AbsentDetails)))),
    Response(403, Decodable(JsonObject(Envelope("map", "tool_access_denied", Absent,
        Details("map", RetryAbsent, "filesystem", "delete_file", "True", Absent, Absent))))),
    Response(400, Decodable(JsonObject(Envelope("map", "injection_detected", Absent,
        Details("map", RetryAbsent, Absent, Absent, Absent, "ignore instructions", "high"))))),
    Response(429, Decodable(JsonObject(Envelope("map", Absent, Absent,
        Details("map", RetryStr(<<"3", "0">>), Absent, Absent, Absent, Absent, Absent))))),
    Response(418, Decodable(JsonObject(Envelope("map", "internal_error", Absent, AbsentDetails)))) }

C22_CodePassedThrough ==
  ( /\ out.op = "classify"
    /\ out.result.err.exc \in {"ServerError", "GatewayOpsError"} )
  => /\ out.result.err.code =
          (IF ArgData.error.st = "map" /\ ArgData.error.code # Absent
           THEN ArgData.error.code ELSE "unknown")
     /\ (out.result.err.exc = "GatewayOpsError" =>
           out.result.err.status_code = SomeInt(arg.status_code))

----------------------------------------------------------------------------
(* Trace scopes of two threads on one client (Spec)                         *)

\* the id of the innermost scope thread t has open on client c
ThreadScopeId(t, c) ==
  LET at == { i \in DOMAIN stacks[t] : stacks[t][i].client = c }
  IN  IF at = {} THEN NoTrace
      ELSE stacks[t][CHOOSE i \in at : \A j \in at : j <= i].trace_id

----------------------------------------------------------------------------
(* client.py:237-240  MCPClient.with_trace                                  *)

TraceNames == {"checkout", "nightly"}

\* the last call of with_trace: on which server client, which one it
\* returned, and the trace name it was given
NoReturned == [kind |-> "none", via |-> 0, returned |-> 0, name |-> ""]

\* mcps[i].with_trace(trace_name): `return self`, nothing else
WithTrace(i, trace_name) ==
  /\ i \in DOMAIN mcps
  /\ arg' = [kind |-> "with_trace", via |-> i, returned |-> i, name |-> trace_name]
  /\ UNCHANGED <<trace_context, max_retries, stacks, next_id, nested, mcps, last, out>>

WithTraceInit ==
  /\ trace_context = [c \in Clients |-> NoTrace]
  /\ max_retries = [c \in Clients |-> IF c = "gw1" THEN DefaultMaxRetries ELSE 1]
  /\ stacks = [t \in Threads |-> <<>>]
  /\ next_id = 1
  /\ nested = [c \in Clients |-> TRUE]
  /\ mcps = <<>>
  /\ last = NoLast
  /\ arg = NoReturned
  /\ out = NoOut

\* one thread on one root client: scopes, server clients, with_trace and
\* requests through the server clients
WithTraceNext ==
  \/ Enter("T1", "gw1")
  \/ Exit("T1")
  \/ \E s \in Servers : Mcp("gw1", s)
  \/ \E i \in 1..MaxMcps, n \in TraceNames : WithTrace(i, n)
  \/ \E i \in 1..MaxMcps, o \in TransportOutcomes : McpRequest("T1", i, Transport(o))

WithTraceSpec == WithTraceInit /\ [][WithTraceNext]_vars

\* C24 as stated: every request made through the server client that
\* with_trace returned carries an X-Trace-ID header
C24_WithTraceSetsContext ==
  [][ (arg.kind = "with_trace" /\ last' # last /\ last'.via = arg.returned) =>
        \A i \in DOMAIN last'.wire : last'.wire[i].x_trace_id # <<>> ]_vars

====
